---- MODULE Spec2Model ----
(***************************************************************************)
(* Jump Cut Hero: the calibration / silence-detection state machine of the *)
(* App component (App.tsx together with constants.ts).                     *)
(*                                                                         *)
(* Time is counted in milliseconds and passes one animation frame at a     *)
(* time (Advance).  A callback that is due (a timeout whose delay has      *)
(* elapsed, the animation frame callback of the current frame) runs before *)
(* the next frame begins; callbacks due in the same frame, user clicks and *)
(* the asynchronous completions of getUserMedia and MediaRecorder.stop     *)
(* interleave freely.  A handler runs to completion and React re-renders   *)
(* before the next event is handled.                                       *)
(*                                                                         *)
(* Left out, as nothing below reads them: the recorded chunks, the device  *)
(* list and the mirror / orientation settings, the calibration countdown   *)
(* shown to the user, and the unmount effect.                              *)
(***************************************************************************)
EXTENDS Integers, FiniteSets, Sequences, TLC

\* ---------------------------------------------------------------- constants.ts
CALIBRATION_TIME_MS == 3000
SILENCE_DETECTION_TIME_MS == 500
\* THRESHOLD_MULTIPLIER = 1.8, kept as the fraction 18/10
THRESHOLD_MULTIPLIER_NUM == 18
THRESHOLD_MULTIPLIER_DEN == 10

\* ---------------------------------------------------------------- bounds
\* length of one animation frame in ms (the period of requestAnimationFrame)
FrameMs == 100
\* number of recording sessions (start requests that acquire a source)
MaxSessions == 2
\* number of readings kept by one calibration
MaxCalSamples == 2

\* greatest average volume given to the classifier on its own (a byte average)
MaxVolume == 9

Sessions == 1..MaxSessions
\* the average volumes the analyser reports
Levels == {0, 1, 2}
NoCall == [op |-> "none", id |-> 0]

VARIABLES
    recordingState,      \* useState<RecordingState>
    videoUrl,            \* useState videoUrl: 0 = null, s = the blob of recorder s
    error,               \* useState error: "none" = null, else the message shown
    streamRef,           \* streamRef.current: 0 = null, s = the stream of session s
    liveStreams,         \* the streams whose tracks have not been stopped
    mediaRecorderRef,    \* mediaRecorderRef.current: 0 = null, s = recorder of session s
    recState,            \* MediaRecorder.state of each recorder ("none" = not created)
    onstopPending,       \* recorders whose stop event is queued and not yet delivered
    audioContextRef,     \* audioContextRef.current: 0 = null
    openContexts,        \* the audio contexts that are not closed
    analyserRef,         \* analyserRef.current: 0 = null
    silenceTimerRef,     \* silenceTimerRef.current is non-null
    timerLeft,           \* ms until the silence timeout runs, -1 = no timeout scheduled
    silenceThresholdRef, \* silenceThresholdRef.current as the fraction <<num, den>>
    raf,                 \* the animation frame request: "none", "next" (frame) or "due"
    loopState,           \* the recordingState captured by the running runAudioAnalysis
    acquiring,           \* getUserMedia is pending
    calLeft,             \* ms until the calibration timeout runs, -1 = none scheduled
    calSum, calCount,    \* calibrationData: the sum and the number of its readings
    sessions,            \* number of sources acquired so far
    sinkCall,            \* the capture-sink call made by the last step, with its recorder
    silenceRun,          \* ms since the first sample of the current unbroken run of
                         \* Silent samples of the running frame loop, -1 = no such run
    lastVolume,          \* the reading classified by the last step, -1 if it read none
    roundTrip,           \* how many states of RoundTrip the first start has passed
                         \* through, one after the other; -1 once it has left them
    lastStep             \* what the last step did: the handler that ran, and for a run
                         \* of runAudioAnalysis the branch it took ("arm", "cancel",
                         \* "resume") or, when it took none, its verdict

vars == <<recordingState, videoUrl, error, streamRef, liveStreams, mediaRecorderRef,
          recState, onstopPending, audioContextRef, openContexts, analyserRef,
          silenceTimerRef, timerLeft, silenceThresholdRef, raf, loopState, acquiring,
          calLeft, calSum, calCount, sessions, sinkCall, silenceRun, lastVolume,
          roundTrip, lastStep>>

Max(a, b) == IF a >= b THEN a ELSE b
Min(a, b) == IF a <= b THEN a ELSE b

Init ==
    /\ recordingState = "Idle"
    /\ videoUrl = 0
    /\ error = "none"
    /\ streamRef = 0
    /\ liveStreams = {}
    /\ mediaRecorderRef = 0
    /\ recState = [s \in Sessions |-> "none"]
    /\ onstopPending = {}
    /\ audioContextRef = 0
    /\ openContexts = {}
    /\ analyserRef = 0
    /\ silenceTimerRef = FALSE
    /\ timerLeft = -1
    /\ silenceThresholdRef = <<0, 1>>
    /\ raf = "none"
    /\ loopState = "Idle"
    /\ acquiring = FALSE
    /\ calLeft = -1
    /\ calSum = 0
    /\ calCount = 0
    /\ sessions = 0
    /\ sinkCall = NoCall
    /\ silenceRun = -1
    /\ lastVolume = -1
    /\ roundTrip = 0
    /\ lastStep = "init"

\* ---------------------------------------------------------------- round trip
\* the states of one session without incident, as rendered by renderControls
RoundTrip == <<"Idle", "Calibrating", "Recording", "Paused", "Recording", "Stopped", "Idle">>

\* the count of RoundTrip states passed after recordingState goes from from to to
TripAfter(idx, from, to) ==
    IF to = from THEN idx
    ELSE IF idx >= 0 /\ idx + 1 < Len(RoundTrip) /\ RoundTrip[idx + 2] = to THEN idx + 1
    ELSE -1

\* ---------------------------------------------------------------- pure parts

\* IsSilent with a reading equal to the scaled threshold counted as silent
IsSilent_OrEqual(averageVolume, thr) ==
    averageVolume * thr[2] * THRESHOLD_MULTIPLIER_DEN <= thr[1] * THRESHOLD_MULTIPLIER_NUM

\* averageVolume < silenceThresholdRef.current * THRESHOLD_MULTIPLIER
IsSilent(averageVolume, thr) ==
    averageVolume * thr[2] * THRESHOLD_MULTIPLIER_DEN < thr[1] * THRESHOLD_MULTIPLIER_NUM

\* the number a / b as a fraction in lowest terms (one number, one value)
Fraction(a, b) ==
    LET g == CHOOSE d \in 1..b : /\ a % d = 0 /\ b % d = 0
                                 /\ \A e \in (d + 1)..b : ~(a % e = 0 /\ b % e = 0)
    IN  <<a \div g, b \div g>>

\* NoiseFloor raising every average below 1 to 1
NoiseFloor_FlooredToOne(sum, n) ==
    IF n > 0 THEN (IF sum >= n THEN Fraction(sum, n) ELSE <<1, 1>>) ELSE <<1, 1>>

\* NoiseFloor without the test average > 0
NoiseFloor_NoZeroTest(sum, n) ==
    IF n > 0 THEN Fraction(sum, n) ELSE <<1, 1>>

\* the threshold the calibration timeout stores for calibrationData of sum sum, length n:
\* average > 0 ? average : 1, and 1 for no data
NoiseFloor(sum, n) ==
    IF n > 0 THEN (IF sum > 0 THEN Fraction(sum, n) ELSE <<1, 1>>) ELSE <<1, 1>>

\* AnalysisBranch with the Sound branch of a recording recorder left out
AnalysisBranch_NoCancel(st, isSilent, timerRef) ==
    IF st = "null" THEN "nothing"
    ELSE IF st = "recording" /\ isSilent THEN (IF ~timerRef THEN "arm" ELSE "nothing")
    ELSE IF st = "paused" /\ ~isSilent THEN "resume"
    ELSE "nothing"

\* AnalysisBranch with the resume debounced behind the timer reference
AnalysisBranch_DebouncedResume(st, isSilent, timerRef) ==
    IF st = "null" THEN "nothing"
    ELSE IF st = "recording" /\ isSilent THEN (IF ~timerRef THEN "arm" ELSE "nothing")
    ELSE IF st = "recording" /\ ~isSilent THEN (IF timerRef THEN "cancel" ELSE "nothing")
    ELSE IF st = "paused" /\ ~isSilent /\ ~timerRef THEN "resume"
    ELSE "nothing"

\* AnalysisBranch with the last branch testing the verdict alone, not state === 'paused'
AnalysisBranch_ResumeUnchecked(st, isSilent, timerRef) ==
    IF st = "null" THEN "nothing"
    ELSE IF st = "recording" /\ isSilent THEN (IF ~timerRef THEN "arm" ELSE "nothing")
    ELSE IF st = "recording" /\ ~isSilent THEN (IF timerRef THEN "cancel" ELSE "nothing")
    ELSE IF ~isSilent THEN "resume"
    ELSE "nothing"

\* AnalysisBranch with the last branch testing state === 'paused' alone, not the verdict
AnalysisBranch_ResumeOnSilence(st, isSilent, timerRef) ==
    IF st = "null" THEN "nothing"
    ELSE IF st = "recording" /\ isSilent THEN (IF ~timerRef THEN "arm" ELSE "nothing")
    ELSE IF st = "recording" /\ ~isSilent THEN (IF timerRef THEN "cancel" ELSE "nothing")
    ELSE IF st = "paused" THEN "resume"
    ELSE "nothing"

\* The branch runAudioAnalysis takes for the recorder state st ("null" = no recorder):
\* "arm" the silence timeout, "cancel" it, "resume" the recorder, or nothing.
AnalysisBranch(st, isSilent, timerRef) ==
    IF st = "null" THEN "nothing"
    ELSE IF st = "recording" /\ isSilent THEN (IF ~timerRef THEN "arm" ELSE "nothing")
    ELSE IF st = "recording" /\ ~isSilent THEN (IF timerRef THEN "cancel" ELSE "nothing")
    ELSE IF st = "paused" /\ ~isSilent THEN "resume"
    ELSE "nothing"

\* the guard of the silence timeout callback: mediaRecorderRef.current?.state === 'recording'
TimeoutPauses(ref, rs) == ref # 0 /\ rs[ref] = "recording"

\* StopGuard without the test of recordingState
StopGuard_NoStateTest(ref, state) == ref # 0

\* StopGuard without the test of the recorder reference
StopGuard_NoRecorderTest(ref, state) == state # "Idle" /\ state # "Stopped"

\* the guard of stopRecording
StopGuard(ref, state) == ref # 0 /\ state # "Idle" /\ state # "Stopped"

\* ErrorMessage without the OverconstrainedError branch
ErrorMessage_Generic(name) == "DeviceUnavailable"

\* the message of the catch block of startCalibration
ErrorMessage(name) ==
    IF name = "OverconstrainedError" THEN "ConstraintUnsupported" ELSE "DeviceUnavailable"

\* the run of Silent samples after one more sample
RunAfterSample(run, isSilent) ==
    IF ~isSilent THEN -1 ELSE IF run = -1 THEN 0 ELSE run


\* the calibration timeout set with setInterval: it comes due again
CalibrationTimeoutAfterRun_Interval(left) == CALIBRATION_TIME_MS

\* the calibration timeout is set with setTimeout: once run, none is scheduled
CalibrationTimeoutAfterRun(left) == -1

\* stopRecording's last line without the clearTimeout
ClearedTimeout_Kept(timerRef, left) == left

\* stopRecording's last line: if (silenceTimerRef.current) clearTimeout(...)
ClearedTimeout(timerRef, left) == IF timerRef THEN -1 ELSE left

\* ---------------------------------------------------------------- cleanup
\* cleanup() cancels the animation frame (raf becomes "none"), stops the tracks of the
\* stream and drops it (streamRef becomes 0), closes the audio context and drops the
\* recorder (mediaRecorderRef becomes 0).

\* StopTracks without the track.stop() calls
StopTracks_Leak(live, ref) == live

\* the live streams after streamRef.current.getTracks().forEach(track => track.stop())
StopTracks(live, ref) == live \ {ref}

\* the open audio contexts after audioContextRef.current.close()
CloseContext(open, ref) == open \ {ref}

\* ---------------------------------------------------------------- runAudioAnalysis
\* The effect of one run of runAudioAnalysis on the recorder rec (0 = none) whose state
\* is st, with the timer reference timerRef and pending time left, for a reading v
\* classified against thr.  It is used by the frame callback and by the direct call
\* that ends startActualRecording.
Analyse(v, thr, rec, st, timerRef, left, run) ==
    LET silent == IsSilent(v, thr)
        branch == AnalysisBranch(st, silent, timerRef)
    IN  [ timerRef |-> CASE branch = "arm" -> TRUE
                         [] branch = "cancel" -> FALSE
                         [] OTHER -> timerRef,
          left     |-> CASE branch = "arm" -> SILENCE_DETECTION_TIME_MS
                         [] branch = "cancel" -> -1
                         [] OTHER -> left,
          resume   |-> branch = "resume",
          step     |-> IF branch # "nothing" THEN branch
                       ELSE IF silent THEN "Silent" ELSE "Sound",
          run      |-> RunAfterSample(run, silent) ]

\* ---------------------------------------------------------------- actions

\* click on "Start Recording" (rendered in Idle only): startCalibration up to the await
StartCalibration ==
    /\ recordingState = "Idle"
    /\ sessions < MaxSessions
    /\ recordingState' = "Calibrating"
    /\ error' = "none"
    /\ videoUrl' = 0
    /\ acquiring' = TRUE
    /\ loopState' = recordingState
    /\ sinkCall' = NoCall
    /\ lastStep' = "StartCalibration"
    /\ lastVolume' = -1
    /\ UNCHANGED <<streamRef, liveStreams, mediaRecorderRef, recState, onstopPending,
                   audioContextRef, openContexts, analyserRef, silenceTimerRef, timerLeft,
                   silenceThresholdRef, raf, calLeft, calSum, calCount, sessions,
                   silenceRun>>
    /\ roundTrip' = TripAfter(roundTrip, recordingState, recordingState')

\* getUserMedia resolves: the rest of the try block of startCalibration
AcquireOk ==
    /\ acquiring
    /\ acquiring' = FALSE
    /\ sessions' = sessions + 1
    /\ streamRef' = sessions + 1
    /\ liveStreams' = liveStreams \cup {sessions + 1}
    /\ audioContextRef' = sessions + 1
    /\ openContexts' = openContexts \cup {sessions + 1}
    /\ analyserRef' = sessions + 1
    /\ calSum' = 0
    /\ calCount' = 0
    /\ calLeft' = CALIBRATION_TIME_MS
    /\ sinkCall' = NoCall
    /\ lastStep' = "AcquireOk"
    /\ lastVolume' = -1
    /\ UNCHANGED <<recordingState, videoUrl, error, mediaRecorderRef, recState,
                   onstopPending, silenceTimerRef, timerLeft, silenceThresholdRef, raf,
                   loopState, silenceRun>>
    /\ roundTrip' = TripAfter(roundTrip, recordingState, recordingState')

\* getUserMedia rejects with an error of the given name: the catch block
AcquireFail(name) ==
    /\ acquiring
    /\ acquiring' = FALSE
    /\ error' = ErrorMessage(name)
    /\ recordingState' = "Idle"
    /\ raf' = "none"
    /\ liveStreams' = StopTracks(liveStreams, streamRef)
    /\ streamRef' = 0
    /\ openContexts' = CloseContext(openContexts, audioContextRef)
    /\ mediaRecorderRef' = 0
    /\ sinkCall' = NoCall
    /\ lastStep' = name
    /\ lastVolume' = -1
    /\ silenceRun' = -1
    /\ UNCHANGED <<videoUrl, recState, onstopPending, audioContextRef, analyserRef,
                   silenceTimerRef, timerLeft, silenceThresholdRef, loopState, calLeft,
                   calSum, calCount, sessions>>
    /\ roundTrip' = TripAfter(roundTrip, recordingState, recordingState')

\* getUserMedia resolves and the stream is stored, then building the audio graph
\* throws: the catch block runs with the stream acquired
AcquirePartialFail ==
    /\ acquiring
    /\ acquiring' = FALSE
    /\ sessions' = sessions + 1
    /\ liveStreams' = StopTracks(liveStreams \cup {sessions + 1}, sessions + 1)
    /\ streamRef' = 0
    /\ error' = ErrorMessage("NotSupportedError")
    /\ recordingState' = "Idle"
    /\ raf' = "none"
    /\ openContexts' = CloseContext(openContexts, audioContextRef)
    /\ mediaRecorderRef' = 0
    /\ sinkCall' = NoCall
    /\ lastStep' = "PartialFail"
    /\ lastVolume' = -1
    /\ silenceRun' = -1
    /\ UNCHANGED <<videoUrl, recState, onstopPending, audioContextRef, analyserRef,
                   silenceTimerRef, timerLeft, silenceThresholdRef, loopState, calLeft,
                   calSum, calCount>>
    /\ roundTrip' = TripAfter(roundTrip, recordingState, recordingState')

\* one run of collectCalibrationData that pushes the reading v
CollectCalibrationData(v) ==
    /\ calLeft >= 0
    /\ calCount < MaxCalSamples
    /\ audioContextRef # 0 /\ analyserRef # 0 /\ audioContextRef \in openContexts
    /\ calSum' = calSum + v
    /\ calCount' = calCount + 1
    /\ sinkCall' = NoCall
    /\ lastStep' = "Collect"
    /\ lastVolume' = -1
    /\ UNCHANGED <<recordingState, videoUrl, error, streamRef, liveStreams,
                   mediaRecorderRef, recState, onstopPending, audioContextRef,
                   openContexts, analyserRef, silenceTimerRef, timerLeft,
                   silenceThresholdRef, raf, loopState, acquiring, calLeft, sessions,
                   silenceRun>>
    /\ roundTrip' = TripAfter(roundTrip, recordingState, recordingState')

\* the calibration timeout: the threshold, then startActualRecording, whose last
\* statement runs runAudioAnalysis once (reading v)
CalibrationTimeout(v) ==
    /\ calLeft = 0
    /\ calLeft' = CalibrationTimeoutAfterRun(calLeft)
    /\ silenceThresholdRef' = NoiseFloor(calSum, calCount)
    /\ IF streamRef = 0
       THEN /\ sinkCall' = NoCall
            /\ lastStep' = "CalibrationTimeoutNoStream"
            /\ lastVolume' = -1
            /\ UNCHANGED <<recordingState, mediaRecorderRef, recState, silenceTimerRef,
                           timerLeft, raf, silenceRun>>
       ELSE /\ recordingState' = "Recording"
            /\ mediaRecorderRef' = streamRef
            /\ recState' = [recState EXCEPT ![streamRef] = "recording"]
            /\ sinkCall' = [op |-> "start", id |-> streamRef]
            /\ lastStep' = "CalibrationTimeout"
            /\ raf' = "next"
            /\ IF analyserRef = 0 \/ loopState = "Calibrating"
               THEN /\ silenceRun' = -1
                    /\ lastVolume' = -1
                    /\ UNCHANGED <<silenceTimerRef, timerLeft>>
               ELSE LET a == Analyse(v, silenceThresholdRef', streamRef, "recording",
                                     silenceTimerRef, timerLeft, -1)
                    IN  /\ lastVolume' = v
                        /\ silenceTimerRef' = a.timerRef
                        /\ timerLeft' = a.left
                        /\ silenceRun' = a.run
    /\ calSum' = 0       \* calibrationData is dropped with the closure
    /\ calCount' = 0
    /\ UNCHANGED <<videoUrl, error, streamRef, liveStreams, onstopPending,
                   audioContextRef, openContexts, analyserRef, loopState, acquiring,
                   sessions>>
    /\ roundTrip' = TripAfter(roundTrip, recordingState, recordingState')

\* the animation frame callback runAudioAnalysis, with the reading v
RunAudioAnalysis(v) ==
    /\ raf = "due"
    /\ raf' = "next"
    /\ IF analyserRef = 0 \/ loopState = "Calibrating"
       THEN /\ sinkCall' = NoCall
            /\ lastStep' = "FrameSkipped"
            /\ lastVolume' = -1
            /\ UNCHANGED <<recordingState, recState, silenceTimerRef, timerLeft, silenceRun>>
       ELSE LET st == IF mediaRecorderRef = 0 THEN "null" ELSE recState[mediaRecorderRef]
                a == Analyse(v, silenceThresholdRef, mediaRecorderRef, st,
                             silenceTimerRef, timerLeft, silenceRun)
            IN  /\ lastVolume' = v
                /\ silenceTimerRef' = a.timerRef
                /\ timerLeft' = a.left
                /\ silenceRun' = a.run
                /\ lastStep' = a.step
                /\ IF a.resume
                   THEN /\ recState' = [recState EXCEPT ![mediaRecorderRef] = "recording"]
                        /\ recordingState' = "Recording"
                        /\ sinkCall' = [op |-> "resume", id |-> mediaRecorderRef]
                   ELSE /\ sinkCall' = NoCall
                        /\ UNCHANGED <<recState, recordingState>>
    /\ UNCHANGED <<videoUrl, error, streamRef, liveStreams, mediaRecorderRef,
                   onstopPending, audioContextRef, openContexts, analyserRef,
                   silenceThresholdRef, loopState, acquiring, calLeft, calSum, calCount,
                   sessions>>
    /\ roundTrip' = TripAfter(roundTrip, recordingState, recordingState')

\* the silence timeout callback
SilenceTimeout ==
    /\ timerLeft = 0
    /\ timerLeft' = -1
    /\ lastStep' = "SilenceTimeout"
    /\ lastVolume' = -1
    /\ IF TimeoutPauses(mediaRecorderRef, recState)
       THEN /\ recState' = [recState EXCEPT ![mediaRecorderRef] = "paused"]
            /\ recordingState' = "Paused"
            /\ sinkCall' = [op |-> "pause", id |-> mediaRecorderRef]
       ELSE /\ sinkCall' = NoCall
            /\ UNCHANGED <<recState, recordingState>>
    /\ UNCHANGED <<videoUrl, error, streamRef, liveStreams, mediaRecorderRef,
                   onstopPending, audioContextRef, openContexts, analyserRef,
                   silenceTimerRef, silenceThresholdRef, raf, loopState, acquiring,
                   calLeft, calSum, calCount, sessions, silenceRun>>
    /\ roundTrip' = TripAfter(roundTrip, recordingState, recordingState')

\* stopRecording.  Its own guard tests the state, so it is taken in every state.
StopRecording ==
    /\ lastStep' = "StopRecording"
    /\ lastVolume' = -1
    /\ IF StopGuard(mediaRecorderRef, recordingState)
       THEN /\ recState' = [s \in Sessions |->
                                IF s = mediaRecorderRef THEN "inactive" ELSE recState[s]]
            /\ onstopPending' = onstopPending \cup ({mediaRecorderRef} \cap Sessions)
            /\ recordingState' = "Stopped"
            /\ sinkCall' = [op |-> "stop", id |-> mediaRecorderRef]
       ELSE /\ sinkCall' = NoCall
            /\ UNCHANGED <<recState, onstopPending, recordingState>>
    /\ timerLeft' = ClearedTimeout(silenceTimerRef, timerLeft)
    /\ UNCHANGED <<videoUrl, error, streamRef, liveStreams, mediaRecorderRef,
                   audioContextRef, openContexts, analyserRef, silenceTimerRef,
                   silenceThresholdRef, raf, loopState, acquiring, calLeft, calSum,
                   calCount, sessions, silenceRun>>
    /\ roundTrip' = TripAfter(roundTrip, recordingState, recordingState')

\* the stop event of recorder s is delivered: mediaRecorder.onstop
OnStop(s) ==
    /\ s \in onstopPending
    /\ onstopPending' = onstopPending \ {s}
    /\ videoUrl' = s
    /\ raf' = "none"
    /\ liveStreams' = StopTracks(liveStreams, streamRef)
    /\ streamRef' = 0
    /\ openContexts' = CloseContext(openContexts, audioContextRef)
    /\ mediaRecorderRef' = 0
    /\ sinkCall' = NoCall
    /\ lastStep' = "OnStop"
    /\ lastVolume' = -1
    /\ silenceRun' = -1
    /\ UNCHANGED <<recordingState, error, recState, audioContextRef, analyserRef,
                   silenceTimerRef, timerLeft, silenceThresholdRef, loopState, acquiring,
                   calLeft, calSum, calCount, sessions>>
    /\ roundTrip' = TripAfter(roundTrip, recordingState, recordingState')

\* The tracks of the stream recorder s was built on (new MediaRecorder(streamRef.current))
\* have all been stopped by cleanup() while s is still recording or paused: the
\* browser stops the recorder and queues its stop event.
TracksEnded(s) ==
    /\ recState[s] \in {"recording", "paused"}
    /\ s \notin liveStreams
    /\ recState' = [recState EXCEPT ![s] = "inactive"]
    /\ onstopPending' = onstopPending \cup {s}
    /\ sinkCall' = NoCall
    /\ lastStep' = "TracksEnded"
    /\ lastVolume' = -1
    /\ UNCHANGED <<recordingState, videoUrl, error, streamRef, liveStreams,
                   mediaRecorderRef, audioContextRef, openContexts, analyserRef,
                   silenceTimerRef, timerLeft, silenceThresholdRef, raf, loopState,
                   acquiring, calLeft, calSum, calCount, sessions, silenceRun>>
    /\ roundTrip' = TripAfter(roundTrip, recordingState, recordingState')

\* click on "Record Again" (rendered in Stopped only): handleReset
HandleReset ==
    /\ recordingState = "Stopped"
    /\ recordingState' = "Idle"
    /\ videoUrl' = 0
    /\ error' = "none"
    /\ raf' = "none"
    /\ liveStreams' = StopTracks(liveStreams, streamRef)
    /\ streamRef' = 0
    /\ openContexts' = CloseContext(openContexts, audioContextRef)
    /\ mediaRecorderRef' = 0
    /\ sinkCall' = NoCall
    /\ lastStep' = "HandleReset"
    /\ lastVolume' = -1
    /\ silenceRun' = -1
    /\ UNCHANGED <<recState, onstopPending, audioContextRef, analyserRef,
                   silenceTimerRef, timerLeft, silenceThresholdRef, loopState, acquiring,
                   calLeft, calSum, calCount, sessions>>
    /\ roundTrip' = TripAfter(roundTrip, recordingState, recordingState')

\* one animation frame of time passes; nothing that is due is left behind
Advance ==
    /\ raf # "due"
    /\ timerLeft # 0
    /\ calLeft # 0
    /\ raf = "next" \/ timerLeft > 0 \/ calLeft > 0
    /\ raf' = IF raf = "next" THEN "due" ELSE raf
    /\ timerLeft' = IF timerLeft > 0 THEN Max(timerLeft - FrameMs, 0) ELSE timerLeft
    /\ calLeft' = IF calLeft > 0 THEN Max(calLeft - FrameMs, 0) ELSE calLeft
    /\ silenceRun' = IF silenceRun >= 0
                     THEN Min(silenceRun + FrameMs, SILENCE_DETECTION_TIME_MS + FrameMs)
                     ELSE silenceRun
    /\ sinkCall' = NoCall
    /\ lastStep' = "Advance"
    /\ lastVolume' = -1
    /\ UNCHANGED <<recordingState, videoUrl, error, streamRef, liveStreams,
                   mediaRecorderRef, recState, onstopPending, audioContextRef,
                   openContexts, analyserRef, silenceTimerRef, silenceThresholdRef,
                   loopState, acquiring, calCount, calSum, sessions>>
    /\ roundTrip' = TripAfter(roundTrip, recordingState, recordingState')

Next ==
    \/ StartCalibration
    \/ AcquireOk
    \/ \E name \in {"OverconstrainedError", "NotFoundError"} : AcquireFail(name)
    \/ AcquirePartialFail
    \/ \E v \in Levels : CollectCalibrationData(v)
    \/ \E v \in Levels : CalibrationTimeout(v)
    \/ \E v \in Levels : RunAudioAnalysis(v)
    \/ SilenceTimeout
    \/ StopRecording
    \/ \E s \in Sessions : OnStop(s)
    \/ \E s \in Sessions : TracksEnded(s)
    \/ HandleReset
    \/ Advance

Spec == Init /\ [][Next]_vars

\* The host runs what it has scheduled: time passes, a due timeout and the frame
\* callback run, and the pending getUserMedia promise and stop event are delivered.
\* Clicks (StartCalibration, StopRecording, HandleReset) are never forced.
FairSpec ==
    /\ Spec
    /\ WF_vars(Advance)
    /\ WF_vars(\E v \in Levels : RunAudioAnalysis(v))
    /\ WF_vars(SilenceTimeout)
    /\ WF_vars(\E v \in Levels : CalibrationTimeout(v))
    /\ WF_vars(\E s \in Sessions : OnStop(s))
    /\ WF_vars(AcquireOk \/ AcquirePartialFail
                \/ \E name \in {"OverconstrainedError", "NotFoundError"} : AcquireFail(name))

\* ---------------------------------------------------------------- the classifier alone
\* The first session at the moment its calibration window has elapsed, for every
\* calibrationData of up to MaxCalSamples readings in 0..MaxVolume; from there the
\* calibration timeout, the frame loop and the silence timeout run on readings in
\* 0..MaxVolume.
Volumes == 0..MaxVolume

ClassifierInit ==
    /\ recordingState = "Calibrating"
    /\ videoUrl = 0
    /\ error = "none"
    /\ streamRef = 1
    /\ liveStreams = {1}
    /\ mediaRecorderRef = 0
    /\ recState = [s \in Sessions |-> "none"]
    /\ onstopPending = {}
    /\ audioContextRef = 1
    /\ openContexts = {1}
    /\ analyserRef = 1
    /\ silenceTimerRef = FALSE
    /\ timerLeft = -1
    /\ silenceThresholdRef = <<0, 1>>
    /\ raf = "none"
    /\ loopState = "Idle"
    /\ acquiring = FALSE
    /\ calLeft = 0
    /\ calCount \in 0..MaxCalSamples
    /\ calSum \in 0..(calCount * MaxVolume)
    /\ sessions = 1
    /\ sinkCall = NoCall
    /\ silenceRun = -1
    /\ lastVolume = -1
    /\ roundTrip = 1
    /\ lastStep = "Advance"

ClassifierNext ==
    \/ \E v \in Volumes : CalibrationTimeout(v)
    \/ \E v \in Volumes : RunAudioAnalysis(v)
    \/ SilenceTimeout
    \/ Advance

ClassifierSpec == ClassifierInit /\ [][ClassifierNext]_vars

TypeOK ==
    /\ recordingState \in {"Idle", "Calibrating", "Recording", "Paused", "Stopped"}
    /\ videoUrl \in 0..MaxSessions
    /\ streamRef \in 0..MaxSessions
    /\ mediaRecorderRef \in 0..MaxSessions
    /\ recState \in [Sessions -> {"none", "inactive", "recording", "paused"}]
    /\ raf \in {"none", "next", "due"}
    /\ timerLeft \in -1..SILENCE_DETECTION_TIME_MS
    /\ calLeft \in -1..CALIBRATION_TIME_MS
    /\ (~silenceTimerRef) => timerLeft = -1

\* the steps that classified a sample as Sound, and as Silent
SoundSteps == {"Sound", "cancel", "resume"}
SilentSteps == {"Silent", "arm"}
FailSteps == {"OverconstrainedError", "NotFoundError", "PartialFail"}

\* C1: the sink's pause is invoked only after an unbroken run of Silent samples that
\* has lasted the whole debounce window; after a Sound sample no pause is pending, and
\* one processed in Recording leaves the timer disarmed; a timeout is armed at the
\* first sample of a run of Silent samples, with the whole window ahead.
C1_PauseOnlyAfterFullSilence ==
    /\ sinkCall.op = "pause" => silenceRun >= SILENCE_DETECTION_TIME_MS
    /\ lastStep \in SoundSteps => timerLeft = -1
    /\ (lastStep \in {"Sound", "cancel"} /\ recordingState = "Recording")
       => ~silenceTimerRef
    /\ lastStep = "arm" => (timerLeft = SILENCE_DETECTION_TIME_MS /\ silenceRun = 0)
C1_Witness ==
    /\ sinkCall.op = "pause"
    /\ recordingState = "Paused"
    /\ silenceRun >= SILENCE_DETECTION_TIME_MS

\* C2: while Recording with the loop running, an unbroken run of Silent samples never
\* lasts a whole frame beyond the debounce window without the recorder being paused.
C2_SilencePausesWithinWindow ==
    ~ /\ recordingState = "Recording"
      /\ raf # "none"
      /\ mediaRecorderRef # 0
      /\ silenceRun >= SILENCE_DETECTION_TIME_MS + FrameMs

\* C3: a Sound sample classified while Paused resumes the recorder and publishes
\* Recording in that very step, whatever the silence timer reference holds.
C3_ResumeImmediate ==
    [][ (recordingState = "Paused" /\ lastStep' \in SoundSteps)
        => /\ recordingState' = "Recording"
           /\ sinkCall' = [op |-> "resume", id |-> mediaRecorderRef]
           /\ recState'[mediaRecorderRef] = "recording" ]_vars
C3_Witness ==
    /\ lastStep = "resume"
    /\ recordingState = "Recording"
    /\ silenceTimerRef

\* C4: pause is requested only in Recording and resume only in Paused.
C4_PauseResumeGuarded ==
    [][ /\ sinkCall'.op = "pause" => recordingState = "Recording"
        /\ sinkCall'.op = "resume" => recordingState = "Paused" ]_vars
C4_Witness ==
    /\ sinkCall.op = "resume"
    /\ sessions = MaxSessions

\* C5: pause, resume and stop go to a recorder that was started and is not stopped,
\* and start is called only when no started recorder is left unstopped.
C5_SinkCallsWellFormed ==
    [][ /\ sinkCall'.op \in {"pause", "resume", "stop"}
           => recState[sinkCall'.id] \in {"recording", "paused"}
        /\ sinkCall'.op = "start"
           => /\ recState[sinkCall'.id] = "none"
              /\ \A s \in Sessions : recState[s] \notin {"recording", "paused"} ]_vars
C5_Witness ==
    /\ sinkCall.op = "start"
    /\ \E s \in Sessions : s # sinkCall.id /\ recState[s] = "inactive"

\* C6: a stop request in Calibrating, Recording or Paused publishes Stopped, and once
\* the stop has been finalised no source stream is left live.
C6_StopFromAnyState ==
    [][ /\ (lastStep' = "StopRecording"
            /\ recordingState \in {"Calibrating", "Recording", "Paused"})
           => recordingState' = "Stopped"
        /\ (recordingState' = "Stopped" /\ onstopPending' = {})
           => (streamRef' = 0 /\ liveStreams' = {}) ]_vars

\* C7: a stop request in Calibrating publishes Idle, releases the source and leaves no
\* calibration timeout behind (so no threshold is computed and no recorder started).
C7_AbortCalibration ==
    [][ (lastStep' = "StopRecording" /\ recordingState = "Calibrating")
        => /\ recordingState' = "Idle"
           /\ streamRef' = 0
           /\ liveStreams' = {}
           /\ ~acquiring'
           /\ calLeft' = -1 ]_vars

\* the edges of the transition table
TableEdges ==
    { <<"Idle", "Calibrating">>, <<"Calibrating", "Recording">>, <<"Calibrating", "Idle">>,
      <<"Recording", "Paused">>, <<"Paused", "Recording">>, <<"Recording", "Stopped">>,
      <<"Paused", "Stopped">>, <<"Stopped", "Idle">> }

\* C8: every change of recordingState is an edge of the table, and Stopped is left
\* only by handleReset, to Idle.
C8_OnlyTableEdges ==
    [][ /\ recordingState' # recordingState
           => <<recordingState, recordingState'>> \in TableEdges
        /\ (recordingState = "Stopped" /\ recordingState' # "Stopped")
           => (lastStep' = "HandleReset" /\ recordingState' = "Idle") ]_vars
C8_Witness ==
    /\ lastStep = "HandleReset"
    /\ recordingState = "Idle"
    /\ recState[MaxSessions] = "inactive"

\* C9: after a failed acquisition the error is the class of the failure, the state is
\* Idle and nothing acquired is left live; and in Idle no acquisition and no
\* calibration is under way and no recorder has just been started (nothing is retried).
C9_AcquisitionFailure ==
    /\ lastStep \in FailSteps
       => /\ error = (IF lastStep = "OverconstrainedError"
                      THEN "ConstraintUnsupported" ELSE "DeviceUnavailable")
          /\ recordingState = "Idle"
          /\ streamRef = 0
          /\ liveStreams = {}
          /\ mediaRecorderRef = 0
          /\ raf = "none"
    /\ recordingState = "Idle"
       => /\ ~acquiring
          /\ calLeft = -1
          /\ sinkCall.op # "start"
C9_Witness ==
    /\ lastStep = "OverconstrainedError"
    /\ error = "ConstraintUnsupported"
    /\ recordingState = "Idle"
    /\ sessions >= 1

\* C10: a stop request leaves no silence timeout pending; while Stopped no timeout
\* is pending, no sample takes a branch, the sink is neither paused nor resumed and
\* the state is left only by handleReset; once the stop event has been delivered the
\* frame loop is cancelled, and after a stop that is bound to happen.
C10_StopWins ==
    /\ [][ /\ lastStep' = "StopRecording" => timerLeft' = -1
           /\ recordingState = "Stopped"
              => /\ timerLeft' = -1
                 /\ sinkCall'.op \notin {"pause", "resume"}
                 /\ lastStep' \notin {"arm", "cancel", "resume"}
                 /\ recordingState' = "Stopped" \/ lastStep' = "HandleReset"
           /\ (recordingState' = "Stopped" /\ onstopPending' = {}) => raf' = "none" ]_vars
    /\ (recordingState = "Stopped") ~> (raf = "none")
C10_Witness ==
    /\ lastStep = "StopRecording"
    /\ recordingState = "Stopped"
    /\ silenceTimerRef
    /\ silenceRun >= 0
    /\ silenceRun < SILENCE_DETECTION_TIME_MS
    /\ raf = "due"

\* C11: the calibration timeout of a session that acquired its source computes the
\* threshold, starts the recorder (one start call) and publishes Recording, and a
\* session whose calibration window is running does not stay Calibrating for ever.
C11_CalibrationEnds ==
    /\ [][ lastStep' \in {"CalibrationTimeout", "CalibrationTimeoutNoStream"}
           => /\ recordingState = "Calibrating"
              /\ silenceThresholdRef' = NoiseFloor(calSum, calCount)
              /\ recordingState' = "Recording"
              /\ sinkCall'.op = "start" ]_vars
    /\ (recordingState = "Calibrating" /\ calLeft >= 0) ~> (recordingState # "Calibrating")

\* the steps of the frame callback that classified a sample
ClassifySteps == SoundSteps \cup SilentSteps

\* C12: while Recording or Paused the frame loop is scheduled and each of its runs
\* classifies a sample; no run of the frame callback classifies a sample while the
\* state is Idle, Calibrating or Stopped.
C12_LoopFollowsState ==
    [][ /\ recordingState' \in {"Recording", "Paused"} => raf' # "none"
        /\ (lastStep' = "FrameSkipped") => recordingState \notin {"Recording", "Paused"}
        /\ (lastStep' \in ClassifySteps) => recordingState \in {"Recording", "Paused"} ]_vars

\* the steps in which the calibration timeout ran
CalibrationSteps == {"CalibrationTimeout", "CalibrationTimeoutNoStream"}

\* C13: the threshold a calibration timeout stores is greater than 0 whatever readings
\* were collected (none, all zero or other), and so is the threshold every later
\* sample is classified against.
C13_NoiseFloorPositive ==
    [][ /\ lastStep' \in CalibrationSteps
           => (silenceThresholdRef'[1] > 0 /\ silenceThresholdRef'[2] > 0)
        /\ (lastStep' \in CalibrationSteps /\ calSum = 0)
           => silenceThresholdRef' = <<1, 1>>
        /\ lastStep' \in ClassifySteps
           => (silenceThresholdRef[1] > 0 /\ silenceThresholdRef[2] > 0) ]_vars
C13_Witness ==
    /\ lastStep = "CalibrationTimeout"
    /\ recordingState = "Recording"
    /\ silenceThresholdRef = <<1, 1>>
    /\ silenceTimerRef

\* C14: the threshold a calibration timeout stores is max(mean of the readings, 1),
\* it is 1 when no reading was collected, and it is never below 1.
C14_NoiseFloorIsMaxMeanOne ==
    [][ lastStep' \in CalibrationSteps
        => /\ silenceThresholdRef'[1] >= silenceThresholdRef'[2]
           /\ IF calCount = 0 \/ calSum <= calCount
              THEN silenceThresholdRef' = <<1, 1>>
              ELSE silenceThresholdRef'[1] * calCount = calSum * silenceThresholdRef'[2]
       ]_vars

\* C14 (amended): the threshold a calibration timeout stores is the mean of the
\* readings when that mean is greater than 0, and 1 when it is 0 or when no reading
\* was collected; it is below 1 exactly when the mean lies strictly between 0 and 1.
C14_NoiseFloorIsMeanOrOne ==
    [][ lastStep' \in CalibrationSteps
        => /\ IF calCount = 0 \/ calSum = 0
              THEN silenceThresholdRef' = <<1, 1>>
              ELSE silenceThresholdRef'[1] * calCount = calSum * silenceThresholdRef'[2]
           /\ (silenceThresholdRef'[1] < silenceThresholdRef'[2])
              <=> (0 < calSum /\ calSum < calCount) ]_vars
C14_Witness ==
    /\ lastStep = "CalibrationTimeout"
    /\ recordingState = "Recording"
    /\ silenceThresholdRef = <<1, 2>>

\* the thresholds a calibration of up to MaxCalSamples readings in 0..MaxVolume stores
Thresholds ==
    { NoiseFloor(sum, n) : sum \in 0..(MaxCalSamples * MaxVolume), n \in 0..MaxCalSamples }

\* a / b <= c / d for fractions with positive denominators
FractionLeq(x, y) == x[1] * y[2] <= y[1] * x[2]

\* C15: a reading is classified Silent exactly when it is strictly below the stored
\* threshold times 1.8, a reading equal to that product is Sound, and a reading that
\* is Silent against a threshold is Silent against every greater threshold.
C15_SilentIffBelowThreshold ==
    lastStep \in ClassifySteps
    => /\ lastStep \in SilentSteps
          <=> (lastVolume * silenceThresholdRef[2] * 10 < silenceThresholdRef[1] * 18)
       /\ (lastVolume * silenceThresholdRef[2] * 10 = silenceThresholdRef[1] * 18)
          => lastStep \in SoundSteps
       /\ lastStep \in SilentSteps
          => \A t \in Thresholds :
                FractionLeq(silenceThresholdRef, t) => IsSilent(lastVolume, t)
C15_Witness ==
    /\ lastStep \in SoundSteps
    /\ lastVolume * silenceThresholdRef[2] * 10 = silenceThresholdRef[1] * 18
    /\ recState[1] = "recording"

\* C16: in Idle (initially, after a failed acquisition, after a reset) no stream is
\* referenced or live, and no recorder is referenced or left recording or paused.
C16_IdleHoldsNothing ==
    recordingState = "Idle"
    => /\ streamRef = 0
       /\ liveStreams = {}
       /\ mediaRecorderRef = 0
       /\ \A s \in Sessions : recState[s] \notin {"recording", "paused"}
C16_Witness ==
    /\ recordingState = "Idle"
    /\ lastStep = "HandleReset"
    /\ onstopPending # {}
    /\ sessions = MaxSessions

\* C17: the first session can go Idle, Calibrating, Recording, Paused, Recording,
\* Stopped, Idle with no other state in between (the state C17_Witness), and
\* whenever it takes the next step of that sequence the step is, in order: the start
\* request, the calibration timeout starting the recorder, the silence timeout after
\* a whole window of silence, a frame with a Sound reading, the stop request, the reset.
C17_RoundTripByItsEvents ==
    [][ (roundTrip' # roundTrip /\ roundTrip' >= 0)
        => /\ roundTrip' = roundTrip + 1
           /\ recordingState = RoundTrip[roundTrip + 1]
           /\ recordingState' = RoundTrip[roundTrip' + 1]
           /\ roundTrip' = 1 => lastStep' = "StartCalibration"
           /\ roundTrip' = 2 => (lastStep' = "CalibrationTimeout" /\ sinkCall'.op = "start")
           /\ roundTrip' = 3 => /\ lastStep' = "SilenceTimeout"
                                /\ silenceRun >= SILENCE_DETECTION_TIME_MS
           /\ roundTrip' = 4
              => /\ lastStep' = "resume"
                 /\ lastVolume' * silenceThresholdRef[2] * 10 >= silenceThresholdRef[1] * 18
           /\ roundTrip' = 5 => (lastStep' = "StopRecording" /\ sinkCall'.op = "stop")
           /\ roundTrip' = 6 => (lastStep' = "HandleReset" /\ videoUrl' = 0) ]_vars
C17_Witness ==
    /\ roundTrip = 6
    /\ recordingState = "Idle"
    /\ lastStep = "HandleReset"
    /\ sessions = 1

\* C18: the threshold is written by the calibration timeout alone, which runs in
\* Calibrating and once per calibration; no step taken in Recording, Paused or
\* Stopped (frame, silence timeout, pause, resume, stop, stop event) changes it.
C18_ThresholdWrittenOnce ==
    [][ /\ silenceThresholdRef' # silenceThresholdRef => lastStep' \in CalibrationSteps
        /\ lastStep' \in CalibrationSteps
           => (recordingState = "Calibrating" /\ calLeft = 0 /\ calLeft' = -1)
        /\ recordingState \in {"Recording", "Paused", "Stopped"}
           => silenceThresholdRef' = silenceThresholdRef ]_vars
C18_Witness ==
    /\ recordingState = "Stopped"
    /\ sessions = MaxSessions
    /\ silenceThresholdRef = <<2, 1>>
    /\ recState[MaxSessions] = "inactive"
    /\ sinkCall.op = "stop"

\* C19: handleReset runs in Stopped, publishes Idle and clears videoUrl; videoUrl is
\* null in Idle and in Calibrating, and it is set only while Stopped, by the stop
\* event of the recorder that was just stopped.
C19_ResetClearsOutput ==
    [][ /\ lastStep' = "HandleReset"
           => (recordingState = "Stopped" /\ recordingState' = "Idle" /\ videoUrl' = 0)
        /\ recordingState' \in {"Idle", "Calibrating"} => videoUrl' = 0
        /\ (videoUrl' # videoUrl /\ videoUrl' # 0)
           => (recordingState' = "Stopped" /\ videoUrl' = sessions) ]_vars

\* C20: the timer reference is non-null exactly while a silence timeout is pending;
\* it is null after the timeout has run, after a Sound reading cancelled it, after a
\* stop request and after a reset; and a Silent reading taken in Recording with no
\* timeout pending arms one with the whole window ahead.
C20_TimerRefMeansPending ==
    [][ /\ silenceTimerRef' <=> (timerLeft' >= 0)
        /\ lastStep' \in {"SilenceTimeout", "cancel", "StopRecording", "HandleReset"}
           => ~silenceTimerRef'
        /\ (lastStep' \in SilentSteps /\ recordingState = "Recording" /\ timerLeft = -1
            /\ mediaRecorderRef # 0)
           => timerLeft' = SILENCE_DETECTION_TIME_MS ]_vars

\* C21: the stop event of a recorder (its blob becomes videoUrl) releases nothing of
\* another session: it stops only the tracks of its own stream, and when the stream,
\* the recorder and the frame loop at hand belong to a later session it leaves the
\* stream reference, the recorder reference and the frame request as they are.
C21_OnStopReleasesOwnSession ==
    [][ lastStep' = "OnStop"
        => /\ (liveStreams \ liveStreams') \subseteq {videoUrl'}
           /\ streamRef \notin {0, videoUrl'} => streamRef' = streamRef
           /\ mediaRecorderRef \notin {0, videoUrl'}
              => (mediaRecorderRef' = mediaRecorderRef /\ raf' = raf) ]_vars

\* C22: while recordingState is Recording some recorder has been started and is
\* recording, and while it is Paused some recorder is paused.
C22_StateAgreesWithSink ==
    /\ recordingState = "Recording" => \E s \in Sessions : recState[s] = "recording"
    /\ recordingState = "Paused" => \E s \in Sessions : recState[s] = "paused"

====
